---- MODULE Spec2Model ----
(***************************************************************************)
(* Commandos: the branch parser (src/app/git/parsers/branch.ts) and the    *)
(* repository session (src/app/routes/repository/repository.service.ts).   *)
(*                                                                         *)
(* A JavaScript string is a sequence of one-character tokens; the          *)
(* delimiter the parser splits fields on is the single token DELIM.        *)
(* undefined and null are one-token sequences whose token is outside the   *)
(* alphabet, so they differ from every string.                             *)
(***************************************************************************)
EXTENDS Integers, Sequences, FiniteSets, TLC

VARIABLES
    currentId,          \* RepositoryService.currentId
    repositorySetting,  \* RepositoryService.repositorySetting
    currentBranch,      \* RepositoryService.currentBranch
    loaded,             \* value of the BehaviorSubject `loaded`
    branches,           \* value of the BehaviorSubject `branches`: null or a reference to a parsed array
    passes,             \* the getBranches() invocations, by order of call
    lookups,            \* the getCurrentBranch() invocations in flight or settled
    stdout,             \* argument of a direct parseBranches call
    parsed              \* what that call returned or threw

vars == <<currentId, repositorySetting, currentBranch, loaded, branches,
          passes, lookups, stdout, parsed>>

sessionVars == <<currentId, repositorySetting, currentBranch, loaded, branches,
                 passes, lookups>>

parserVars == <<stdout, parsed>>

-----------------------------------------------------------------------------
(* Bounds *)

MaxLines == 3
MaxPasses == 2
MaxLookups == 1

-----------------------------------------------------------------------------
(* JavaScript values *)

Undefined == <<"undefined">>
Null == <<"null">>
NL == "\n"
DELIM == "%x00"
RefChars == {"m", "f", "o"}

Truthy(v) == v # Undefined /\ v # Null /\ v # <<>>

Range(s) == {s[i] : i \in 1..Len(s)}

RECURSIVE Split(_, _)
Split(s, sep) ==
    IF \A i \in 1..Len(s) : s[i] # sep
    THEN <<s>>
    ELSE LET i == CHOOSE k \in 1..Len(s) :
                     s[k] = sep /\ \A j \in 1..(k - 1) : s[j] # sep
         IN  <<SubSeq(s, 1, i - 1)>> \o Split(SubSeq(s, i + 1, Len(s)), sep)

Includes(arr, v) == \E i \in 1..Len(arr) : arr[i] = v

-----------------------------------------------------------------------------
(* parseBranches *)

Keys == <<"name", "upstream">>

ParseEntry(record) ==
    LET data == Split(record, DELIM)
        entry == [key \in Range(Keys) |->
                    LET ix == CHOOSE i \in 1..Len(Keys) : Keys[i] = key
                    IN  IF ix <= Len(data) THEN data[ix] ELSE Undefined]
    IN  entry @@ [ahead |-> 0, behind |-> 0]

ParseEntries(text) ==
    LET records == Split(text, NL)
    IN  [i \in 1..Len(records) |-> ParseEntry(records[i])]

DedupKeepAll(entries) == entries

DedupFirstUpstreamOnly(entries) ==
    LET HasUpstream(e) == Truthy(e.upstream)
        tracked == SelectSeq(entries, HasUpstream)
        withUpstreamBranch == [i \in 1..(IF tracked = <<>> THEN 0 ELSE 1) |-> tracked[i].upstream]
        NotUpstream(f) == ~Includes(withUpstreamBranch, f.name)
    IN  SelectSeq(entries, NotUpstream)

Dedup(entries) ==
    LET HasUpstream(e) == Truthy(e.upstream)
        tracked == SelectSeq(entries, HasUpstream)
        withUpstreamBranch == [i \in 1..Len(tracked) |-> tracked[i].upstream]
        NotUpstream(f) == ~Includes(withUpstreamBranch, f.name)
    IN  SelectSeq(entries, NotUpstream)

ParseFailure == [ok |-> FALSE, error |-> "Failed to parse branches"]

parseBranchesGuardAlways(text) == TRUE

parseBranchesGuard(text) == Truthy(text)

parseBranches(text) ==
    IF parseBranchesGuard(text)
    THEN [ok |-> TRUE, value |-> Dedup(ParseEntries(text))]
    ELSE ParseFailure

-----------------------------------------------------------------------------
(* Inputs of a direct parser call: every text of up to MaxLines lines, each *)
(* of one field or one per key, a field being at most one character, joined *)
(* the way the formatting command joins them (a last line that is empty is  *)
(* a text ending in a newline); and the empty and absent texts.             *)

FieldTexts == {<<>>} \cup {<<c>> : c \in RefChars}

RECURSIVE JoinWith(_, _)
JoinWith(parts, sep) ==
    IF Len(parts) = 0 THEN <<>>
    ELSE IF Len(parts) = 1 THEN parts[1]
    ELSE parts[1] \o <<sep>> \o JoinWith(Tail(parts), sep)

LineTexts ==
    {JoinWith(fs, DELIM) : fs \in UNION {[1..n -> FieldTexts] : n \in 1..Len(Keys)}}

RawTexts ==
    {JoinWith(ls, NL) : ls \in UNION {[1..n -> LineTexts] : n \in 1..MaxLines}}
        \cup {<<>>, Null, Undefined}

NotCalled == [ok |-> FALSE, error |-> "not called"]

-----------------------------------------------------------------------------
(* Collaborators of the session: the settings service and the git commands. *)
(* Two repositories are registered, under the ids 1 and 2.                  *)

NaN == -1
NoId == -2
BACKSLASHES == "\\\\"

Digits == <<"0", "1", "2", "3", "4", "5", "6", "7", "8", "9">>

IsDigit(c) == \E d \in 1..Len(Digits) : Digits[d] = c

DigitValue(c) == (CHOOSE d \in 1..Len(Digits) : Digits[d] = c) - 1

RECURSIVE ParseDigits(_, _)
ParseDigits(s, acc) ==
    IF s = <<>> \/ ~IsDigit(Head(s)) THEN acc
    ELSE ParseDigits(Tail(s), 10 * acc + DigitValue(Head(s)))

parseInt(s) == IF s = <<>> \/ ~IsDigit(Head(s)) THEN NaN ELSE ParseDigits(s, 0)

StrictNotEqual(a, b) == a = NaN \/ b = NaN \/ a # b

IdStrings == {<<"1">>, <<"2">>}

Path1 == <<"C:", BACKSLASHES, "r1">>
Path2 == <<"C:", BACKSLASHES, "r2">>

getRepository(id) ==
    IF id = 1 THEN Path1 ELSE IF id = 2 THEN Path2 ELSE Undefined

Repo1 == <<"C:", "/", "r1">>
Repo2 == <<"C:", "/", "r2">>

RepoRefs(path) ==
    IF path = Repo1
    THEN << <<"f", "o">>, <<"m", "o">>, <<"o", "">> >>
    ELSE IF path = Repo2
    THEN << <<"m", "">> >>
    ELSE <<>>

RefText(r) == IF r = "" THEN <<>> ELSE <<r>>

RepoHead(path) == IF path = Repo1 THEN <<"f">> ELSE <<"m">>

Commits(path, ref) ==
    IF path = Repo1
    THEN (IF ref = <<"o">> THEN {1, 2, 3}
          ELSE IF ref = <<"f">> THEN {1, 4, 5, 6, 7, 8}
          ELSE IF ref = <<"m">> THEN {1, 2, 3, 9}
          ELSE {})
    ELSE IF path = Repo2
    THEN (IF ref = <<"m">> THEN {1, 2} ELSE {})
    ELSE {}

Thrown == [ok |-> FALSE, value |-> <<>>]

Returned(v) == [ok |-> TRUE, value |-> v]

\* getBranches(path) of @git/commands: one line per ref, its fields joined by the delimiter
listBranches(path) ==
    LET refs == RepoRefs(path)
        lines == [i \in 1..Len(refs) |->
                    JoinWith(<<RefText(refs[i][1]), RefText(refs[i][2])>>, DELIM)]
    IN  JoinWith(lines, NL)

ListReplies(path) ==
    {Thrown, Returned(<<>>)}
        \cup (IF RepoRefs(path) # <<>> THEN {Returned(listBranches(path))} ELSE {})

\* getCurrentBranch(path) of @git/commands
HeadReplies(path) ==
    {Thrown, Returned(<<>>)}
        \cup (IF RepoRefs(path) # <<>> THEN {Returned(RepoHead(path))} ELSE {})

\* the number of commits reachable from fromRef and not from excludingRef
countReachable(path, fromRef, excludingRef) ==
    Cardinality(Commits(path, fromRef) \ Commits(path, excludingRef))

\* countRevList(path, a, b) of @git/commands/rev-list
CountReplies(path, fromRef, excludingRef) ==
    {Thrown}
        \cup (IF Commits(path, fromRef) # {} /\ Commits(path, excludingRef) # {}
              THEN {Returned(countReachable(path, fromRef, excludingRef))}
              ELSE {})

-----------------------------------------------------------------------------
(* RepositoryService *)

NullRef == 0

Replace(s) == [i \in 1..Len(s) |-> IF s[i] = BACKSLASHES THEN "/" ELSE s[i]]

getPath == IF Truthy(repositorySetting) THEN Replace(repositorySetting) ELSE Undefined

PathOf(setting) == IF Truthy(setting) THEN Replace(setting) ELSE Undefined

IdlePass ==
    [pc |-> "idle", id |-> NoId, path |-> Undefined, parsedBranches |-> <<>>,
     index |-> 0, ahead |-> 0, outcome |-> "none"]

IdleLookup == [pc |-> "idle", kind |-> "none", path |-> Undefined, reply |-> "none"]

Init ==
    /\ currentId = NoId
    /\ repositorySetting = Undefined
    /\ currentBranch = Undefined
    /\ loaded = FALSE
    /\ branches = NullRef
    /\ passes = [k \in 1..MaxPasses |-> IdlePass]
    /\ lookups = [s \in 1..MaxLookups |-> IdleLookup]
    /\ stdout = Undefined
    /\ parsed = NotCalled

SetIdKeepLoaded(id) ==
    /\ currentId' = parseInt(id)
    /\ UNCHANGED <<repositorySetting, currentBranch, loaded, branches, passes, lookups>>
    /\ UNCHANGED parserVars

SetId(id) ==
    LET newId == parseInt(id)
    IN  /\ loaded' = IF StrictNotEqual(currentId, newId) THEN FALSE ELSE loaded
        /\ currentId' = newId
        /\ UNCHANGED <<repositorySetting, currentBranch, branches, passes, lookups>>
        /\ UNCHANGED parserVars

LoadRepositorySetting ==
    /\ repositorySetting' = IF ~loaded THEN getRepository(currentId) ELSE repositorySetting
    /\ UNCHANGED <<currentId, currentBranch, loaded, branches, passes, lookups>>
    /\ UNCHANGED parserVars

Unload ==
    /\ loaded' = FALSE
    /\ repositorySetting' = Null
    /\ UNCHANGED <<currentId, currentBranch, branches, passes, lookups>>
    /\ UNCHANGED parserVars

\* the slot a new getCurrentBranch() call takes: the first one not in use
FreeLookup(s) ==
    /\ lookups[s].pc = "idle"
    /\ \A t \in 1..(s - 1) : lookups[t].pc # "idle"

IssueLookup(s, kind, path) ==
    [lookups EXCEPT ![s] = [pc |-> "pending", kind |-> kind, path |-> path, reply |-> "none"]]

LoadGitRepositoryUngated ==
    \E s \in 1..MaxLookups :
        /\ FreeLookup(s)
        /\ loaded' = FALSE
        /\ lookups' = IssueLookup(s, "bootstrap", getPath)
        /\ UNCHANGED <<currentId, repositorySetting, currentBranch, branches, passes>>
        /\ UNCHANGED parserVars

LoadGitRepository ==
    IF loaded
    THEN UNCHANGED vars
    ELSE \E s \in 1..MaxLookups :
            /\ FreeLookup(s)
            /\ loaded' = FALSE
            /\ lookups' = IssueLookup(s, "bootstrap", getPath)
            /\ UNCHANGED <<currentId, repositorySetting, currentBranch, branches, passes>>
            /\ UNCHANGED parserVars

ReloadDataStaleSettings ==
    \E s \in 1..MaxLookups :
        /\ FreeLookup(s)
        /\ loaded' = FALSE
        /\ repositorySetting' = IF ~loaded THEN getRepository(currentId) ELSE repositorySetting
        /\ lookups' = IssueLookup(s, "bootstrap", PathOf(repositorySetting'))
        /\ UNCHANGED <<currentId, currentBranch, branches, passes>>
        /\ UNCHANGED parserVars

ReloadData ==
    \E s \in 1..MaxLookups :
        /\ FreeLookup(s)
        /\ loaded' = FALSE
        /\ repositorySetting' = getRepository(currentId)
        /\ lookups' = IssueLookup(s, "bootstrap", PathOf(getRepository(currentId)))
        /\ UNCHANGED <<currentId, currentBranch, branches, passes>>
        /\ UNCHANGED parserVars

GetCurrentBranch ==
    \E s \in 1..MaxLookups :
        /\ FreeLookup(s)
        /\ lookups' = IssueLookup(s, "lookup", getPath)
        /\ UNCHANGED <<currentId, repositorySetting, currentBranch, loaded, branches, passes>>
        /\ UNCHANGED parserVars

ReplyKind(reply) ==
    IF ~reply.ok THEN "throw" ELSE IF Truthy(reply.value) THEN "text" ELSE "empty"

\* the reply to the getCurrentBranch command arrives: getCurrentBranch() stores a
\* non-empty name and returns (lines 89-96), or rejects when the command threw;
\* a call made by loadGitRepository() leaves that caller to resume
GetCurrentBranchResolve(s, reply) ==
    /\ lookups[s].pc = "pending"
    /\ reply \in HeadReplies(lookups[s].path)
    /\ currentBranch' = IF reply.ok /\ Truthy(reply.value) THEN reply.value ELSE currentBranch
    /\ lookups' = [lookups EXCEPT ![s] =
          IF reply.ok /\ lookups[s].kind = "bootstrap"
          THEN [pc |-> "returned", kind |-> "bootstrap", path |-> Undefined,
                reply |-> ReplyKind(reply)]
          ELSE IdleLookup]
    /\ UNCHANGED <<currentId, repositorySetting, loaded, branches, passes>>
    /\ UNCHANGED parserVars

\* loadGitRepository() resumes after `await this.getCurrentBranch()` (line 76)
LoadGitRepositoryResume(s) ==
    /\ lookups[s].pc = "returned"
    /\ loaded' = TRUE
    /\ lookups' = [lookups EXCEPT ![s] = IdleLookup]
    /\ UNCHANGED <<currentId, repositorySetting, currentBranch, branches, passes>>
    /\ UNCHANGED parserVars

-----------------------------------------------------------------------------
(* getBranches(): one pass per call.  `branches` refers to the array of the *)
(* pass that published last; an array nothing refers to any more is         *)
(* dropped from the state.                                                  *)

UpstreamBranchesAll(arr) == [i \in 1..Len(arr) |-> i]

\* the positions in arr of the entries with a non-empty upstream (line 104)
UpstreamBranches(arr) == SelectSeq([i \in 1..Len(arr) |-> i], LAMBDA i : Truthy(arr[i].upstream))

NextPass(k) ==
    /\ passes[k].pc = "idle"
    /\ \A j \in 1..(k - 1) : passes[j].pc # "idle"

GetBranchesGated ==
    /\ loaded
    /\ \E k \in 1..MaxPasses :
          /\ NextPass(k)
          /\ passes' = [passes EXCEPT ![k] =
                [pc |-> "list", id |-> currentId, path |-> getPath, parsedBranches |-> <<>>,
                 index |-> 0, ahead |-> 0, outcome |-> "pending"]]
          /\ UNCHANGED <<currentId, repositorySetting, currentBranch, loaded, branches, lookups>>
          /\ UNCHANGED parserVars

GetBranches ==
    \E k \in 1..MaxPasses :
        /\ NextPass(k)
        /\ passes' = [passes EXCEPT ![k] =
              [pc |-> "list", id |-> currentId, path |-> getPath, parsedBranches |-> <<>>,
               index |-> 0, ahead |-> 0, outcome |-> "pending"]]
        /\ UNCHANGED <<currentId, repositorySetting, currentBranch, loaded, branches, lookups>>
        /\ UNCHANGED parserVars

Settled(outcome) ==
    [pc |-> "done", id |-> NoId, path |-> Undefined, parsedBranches |-> <<>>,
     index |-> 0, ahead |-> 0, outcome |-> outcome]

PublishFirstWins(k, arr) ==
    /\ branches' = IF branches = NullRef THEN k ELSE branches
    /\ passes' = [j \in 1..MaxPasses |->
          IF j = k THEN [Settled("published") EXCEPT !.parsedBranches = arr]
          ELSE IF passes[j].pc = "done" /\ j # branches THEN Settled(passes[j].outcome)
          ELSE passes[j]]

\* this.branches.next(arr) by pass k, which then returns (line 112)
Publish(k, arr) ==
    /\ branches' = k
    /\ passes' = [j \in 1..MaxPasses |->
          IF j = k THEN [Settled("published") EXCEPT !.parsedBranches = arr]
          ELSE IF passes[j].pc = "done" THEN Settled(passes[j].outcome)
          ELSE passes[j]]

\* pass k fulfils without publishing, or rejects
Finish(k, outcome) ==
    /\ passes' = [passes EXCEPT ![k] = Settled(outcome)]
    /\ UNCHANGED branches

AwaitCountPublishing(k, pc, arr, index, ahead) ==
    /\ passes' = [passes EXCEPT ![k] =
          [pc |-> pc, id |-> passes[k].id, path |-> getPath, parsedBranches |-> arr,
           index |-> index, ahead |-> ahead, outcome |-> "pending"]]
    /\ branches' = k

\* pass k issues the count command for its next tracked branch and suspends
AwaitCount(k, pc, arr, index, ahead) ==
    /\ passes' = [passes EXCEPT ![k] =
          [pc |-> pc, id |-> passes[k].id, path |-> getPath, parsedBranches |-> arr,
           index |-> index, ahead |-> ahead, outcome |-> "pending"]]
    /\ UNCHANGED branches

\* the reply to the getBranches command arrives (lines 101-105, 112)
GetBranchesResolve(k, reply) ==
    /\ passes[k].pc = "list"
    /\ reply \in ListReplies(passes[k].path)
    /\ IF ~reply.ok THEN Finish(k, "rejected: list")
       ELSE IF ~Truthy(reply.value) THEN Finish(k, "skipped")
       ELSE LET result == parseBranches(reply.value)
            IN  IF ~result.ok THEN Finish(k, "rejected: parse")
                ELSE IF UpstreamBranches(result.value) = <<>> THEN Publish(k, result.value)
                ELSE AwaitCount(k, "ahead", result.value, 1, 0)
    /\ UNCHANGED <<currentId, repositorySetting, currentBranch, loaded, lookups>>
    /\ UNCHANGED parserVars

CountFromName(p) ==
    p.parsedBranches[UpstreamBranches(p.parsedBranches)[p.index]].name

\* the arguments of the count command pass k awaits (lines 107-108)
CountFrom(p) ==
    LET element == p.parsedBranches[UpstreamBranches(p.parsedBranches)[p.index]]
    IN  IF p.pc = "ahead" THEN element.upstream ELSE element.name

CountExcluding(p) ==
    LET element == p.parsedBranches[UpstreamBranches(p.parsedBranches)[p.index]]
    IN  IF p.pc = "ahead" THEN element.name ELSE element.upstream

\* the reply to a countRevList command arrives (lines 105-112)
CountRevListResolve(k, reply) ==
    LET p == passes[k]
        upstreamBranches == UpstreamBranches(p.parsedBranches)
        e == upstreamBranches[p.index]
        arr == [p.parsedBranches EXCEPT ![e].ahead = p.ahead, ![e].behind = reply.value]
    IN  /\ p.pc \in {"ahead", "behind"}
        /\ reply \in CountReplies(p.path, CountFrom(p), CountExcluding(p))
        /\ IF ~reply.ok THEN Finish(k, "rejected: count")
           ELSE IF p.pc = "ahead"
           THEN AwaitCount(k, "behind", p.parsedBranches, p.index, reply.value)
           ELSE IF p.index < Len(upstreamBranches)
           THEN AwaitCount(k, "ahead", arr, p.index + 1, 0)
           ELSE Publish(k, arr)
        /\ UNCHANGED <<currentId, repositorySetting, currentBranch, loaded, lookups>>
        /\ UNCHANGED parserVars

-----------------------------------------------------------------------------
(* The session: every public operation may be called at any time, and every *)
(* command in flight may reply at any time.                                 *)

Next ==
    \/ \E id \in IdStrings : SetId(id)
    \/ LoadRepositorySetting
    \/ Unload
    \/ LoadGitRepository
    \/ ReloadData
    \/ GetCurrentBranch
    \/ \E s \in 1..MaxLookups : \E reply \in HeadReplies(lookups[s].path) :
          GetCurrentBranchResolve(s, reply)
    \/ \E s \in 1..MaxLookups : LoadGitRepositoryResume(s)
    \/ GetBranches
    \/ \E k \in 1..MaxPasses : \E reply \in ListReplies(passes[k].path) :
          GetBranchesResolve(k, reply)
    \/ \E k \in 1..MaxPasses :
          /\ passes[k].pc \in {"ahead", "behind"}
          /\ \E reply \in CountReplies(passes[k].path, CountFrom(passes[k]), CountExcluding(passes[k])) :
                CountRevListResolve(k, reply)

Spec == Init /\ [][Next]_vars

-----------------------------------------------------------------------------
(* The session when setId is also given an id that is not a number. *)

NonNumericIds == {<<"x">>}

AnyIdStrings == IdStrings \cup NonNumericIds

NextAnyId ==
    \/ \E id \in NonNumericIds : SetId(id)
    \/ Next

SpecAnyId == Init /\ [][NextAnyId]_vars

-----------------------------------------------------------------------------
(* A direct call of the parser on every input text. *)

InitParser ==
    /\ currentId = NoId
    /\ repositorySetting = Undefined
    /\ currentBranch = Undefined
    /\ loaded = FALSE
    /\ branches = NullRef
    /\ passes = [k \in 1..MaxPasses |-> IdlePass]
    /\ lookups = [s \in 1..MaxLookups |-> IdleLookup]
    /\ stdout \in RawTexts
    /\ parsed = NotCalled

ParseBranchesCall ==
    /\ parsed = NotCalled
    /\ parsed' = parseBranches(stdout)
    /\ UNCHANGED stdout
    /\ UNCHANGED sessionVars

NextParser == ParseBranchesCall

SpecParser == InitParser /\ [][NextParser]_vars

-----------------------------------------------------------------------------
(* Claims *)

PublishedBranches == IF branches = NullRef THEN Null ELSE passes[branches].parsedBranches

Suspended(k) == passes[k].pc \in {"list", "ahead", "behind"}

PublishedBy(k) ==
    /\ passes[k].pc # "done"
    /\ passes'[k].pc = "done"
    /\ passes'[k].outcome = "published"

\* C1: a refresh publishes its collection only while the identity it was
\* started under is still the current one; a result that arrives after the
\* identity changed is dropped.
C1_LateResultDiscarded ==
    [][\A k \in 1..MaxPasses : PublishedBy(k) => passes[k].id = currentId]_vars

\* C2: setId with an id other than the current one, called while loaded is
\* true, leaves loaded false and the new identity adopted in that same step,
\* in which no command in flight has replied.
C2_SetIdUnloadsAtOnce ==
    [][\A id \in IdStrings :
          (SetId(id) /\ loaded /\ parseInt(id) # currentId)
              => (loaded' = FALSE /\ currentId' = parseInt(id)
                  /\ passes' = passes /\ lookups' = lookups)]_vars

\* identity 2 is current and unloaded while the settings and the branch name
\* of repository 1, loaded under identity 1, are still in place
C2_Witness ==
    /\ currentId = 2
    /\ loaded = FALSE
    /\ repositorySetting = Path1
    /\ currentBranch = RepoHead(Repo1)
    /\ \A s \in 1..MaxLookups : lookups[s].pc = "idle"

\* C3: loaded goes from false to true only when a bootstrap resumes whose
\* current-branch lookup returned a name; a lookup that returned nothing, or
\* threw, never makes the session loaded.
C3_LoadedOnlyAfterLookupSucceeded ==
    [][(loaded = FALSE /\ loaded' = TRUE)
          => \E s \in 1..MaxLookups :
                /\ lookups[s].pc = "returned"
                /\ lookups[s].reply = "text"
                /\ lookups'[s].pc = "idle"]_vars

\* C4: a refresh whose listing came back empty or absent ends in an error
\* its caller sees; no refresh ends fulfilled without having published.
C4_EmptyListingIsAnError ==
    \A k \in 1..MaxPasses :
        passes[k].pc = "done" => passes[k].outcome # "skipped"

\* C5: a count command that fails does not fail the refresh: no refresh ends
\* rejected because of a count command.
C5_CountFailureIsIsolated ==
    \A k \in 1..MaxPasses :
        passes[k].pc = "done" => passes[k].outcome # "rejected: count"

\* C6: the published collection is never one that a suspended refresh is
\* still filling in: it is null, or the array of a refresh that has returned,
\* whatever other refreshes are suspended.
C6_PublicationIsAtomic ==
    branches # NullRef =>
        /\ passes[branches].pc = "done"
        /\ passes[branches].outcome = "published"
        /\ \A k \in 1..MaxPasses : Suspended(k) => k # branches

\* a collection is published while another refresh is suspended between the
\* count commands of its second tracked branch
C6_Witness ==
    /\ branches # NullRef
    /\ Len(PublishedBranches) > 0
    /\ \E k \in 1..MaxPasses : passes[k].pc = "behind" /\ passes[k].index = 2

ParserReturned == parsed # NotCalled /\ parsed.ok

\* the non-empty upstream values of the records
UpstreamSet(R) == {R[i].upstream : i \in 1..Len(R)} \ {<<>>, Undefined, Null}

\* the j-th of the positions in `kept`, in increasing order
Nth(kept, j) == CHOOSE i \in kept : Cardinality({x \in kept : x < i}) = j - 1

\* C7: the parser returns exactly the records whose name is not one of the
\* non-empty upstream values of the records, in their original order.
C7_Deduplication ==
    ParserReturned =>
        LET R == ParseEntries(stdout)
            kept == {i \in 1..Len(R) : R[i].name \notin UpstreamSet(R)}
        IN  /\ Len(parsed.value) = Cardinality(kept)
            /\ \A j \in 1..Len(parsed.value) : parsed.value[j] = R[Nth(kept, j)]

\* the listing m, f tracking o, o: the parser returned m and f
C7_Witness ==
    /\ stdout = <<"m", NL, "f", DELIM, "o", NL, "o">>
    /\ ParserReturned
    /\ Len(parsed.value) = 2
    /\ parsed.value[1].name = <<"m">>
    /\ parsed.value[2].name = <<"f">>

\* C8: every record the parser returns has a non-empty name and a value for
\* every key of the schema, also for a text that ends in a newline or a line
\* with fewer fields than keys.
C8_RecordsFullyPopulated ==
    ParserReturned =>
        \A i \in 1..Len(parsed.value) :
            /\ Truthy(parsed.value[i].name)
            /\ \A j \in 1..Len(Keys) : parsed.value[i][Keys[j]] # Undefined

AbsentTexts == {<<>>, Null, Undefined}

\* C9: parsing an empty or absent text throws; it does not return a
\* collection.
C9_EmptyTextThrows ==
    (parsed # NotCalled /\ stdout \in AbsentTexts) => parsed = ParseFailure

\* the parser was called with null and threw
C9_Witness == stdout = Null /\ parsed = ParseFailure

\* C10: in the published collection a branch n tracking u has
\* ahead = countReachable(n, excluding u) and behind = countReachable(u,
\* excluding n).
C10_DivergenceDirection ==
    branches # NullRef =>
        \A i \in 1..Len(PublishedBranches) :
            LET b == PublishedBranches[i]
            IN  Truthy(b.upstream) =>
                    /\ b.ahead = countReachable(Repo1, b.name, b.upstream)
                    /\ b.behind = countReachable(Repo1, b.upstream, b.name)

\* a reply arrives for pass k, or pass k is called
PassStep(k) == passes'[k] # passes[k] /\ passes[k].pc # "done"

\* pass k asks for one count with the upstream first and then one with the
\* name first for its tracked branches in turn, and returns after the last
TwoQueriesEach(k) ==
    LET p == passes[k]
        q == passes'[k]
    IN  /\ (p.pc = "list" /\ q.pc # "done") => (q.pc = "ahead" /\ q.index = 1)
        /\ p.pc = "ahead" =>
              \/ q.pc = "behind" /\ q.index = p.index /\ q.parsedBranches = p.parsedBranches
              \/ q.pc = "done" /\ q.outcome = "rejected: count"
        /\ p.pc = "behind" =>
              \/ q.pc = "ahead" /\ q.index = p.index + 1
                    /\ p.index < Len(UpstreamBranches(p.parsedBranches))
              \/ q.pc = "done" /\ q.outcome = "rejected: count"
              \/ q.pc = "done" /\ q.outcome = "published"
                    /\ p.index = Len(UpstreamBranches(p.parsedBranches))

\* C11: a tracked branch of the published collection has for ahead the count
\* asked with (from: its upstream, excluding: its name) and for behind the
\* count asked with (from: its name, excluding: its upstream); a refresh asks
\* these two counts, in this order, once for each tracked branch.
C11_DivergenceCalls ==
    /\ [](branches # NullRef =>
            \A i \in 1..Len(PublishedBranches) :
                LET b == PublishedBranches[i]
                IN  Truthy(b.upstream) =>
                        /\ b.ahead = countReachable(Repo1, b.upstream, b.name)
                        /\ b.behind = countReachable(Repo1, b.name, b.upstream))
    /\ [][\A k \in 1..MaxPasses : PassStep(k) => TwoQueriesEach(k)]_vars

\* the collection of repository 1 is published: f, which tracks o, has
\* ahead = |o \ f| = 2 and behind = |f \ o| = 5
C11_Witness ==
    /\ branches # NullRef
    /\ \E i \in 1..Len(PublishedBranches) :
          /\ PublishedBranches[i].name = <<"f">>
          /\ PublishedBranches[i].upstream = <<"o">>
          /\ PublishedBranches[i].ahead = 2
          /\ PublishedBranches[i].behind = 5

\* C12: setId with an id other than the current one leaves the published
\* branches null and currentBranch cleared.
C12_SetIdDiscardsData ==
    [][\A id \in IdStrings :
          (SetId(id) /\ parseInt(id) # currentId)
              => (branches' = NullRef /\ ~Truthy(currentBranch'))]_vars

\* C13: setId with the identity that is already current changes nothing:
\* loaded, currentBranch, the settings and the published branches stay as
\* they are.
C13_SetIdIdempotent ==
    [][\A id \in AnyIdStrings :
          (SetId(id) /\ parseInt(id) = currentId)
              => UNCHANGED <<loaded, currentBranch, repositorySetting, branches>>]_vars

\* C14: loadGitRepository() called while loaded is true does nothing: no
\* lookup is issued to the gateway, and loaded, currentBranch and branches
\* stay as they are.
C14_BootstrapNoOpWhenLoaded ==
    loaded => ~ENABLED (/\ LoadGitRepository
                        /\ <<loaded, currentBranch, branches, lookups>>'
                              # <<loaded, currentBranch, branches, lookups>>)

C14_Witness ==
    /\ loaded
    /\ Truthy(currentBranch)
    /\ branches # NullRef
    /\ \A s \in 1..MaxLookups : lookups[s].pc = "idle"

\* the lookup of a loadGitRepository() call in slot s settles in this step
BootstrapSettles(s) ==
    /\ lookups[s].kind = "bootstrap"
    /\ lookups[s].pc # "idle"
    /\ lookups'[s].pc = "idle"

\* reloadData() sets loaded to false, reads the settings of the current id and
\* issues the lookup on the path of those settings
ReloadStarts ==
    ReloadData =>
        /\ loaded' = FALSE
        /\ repositorySetting' = getRepository(currentId)
        /\ \E s \in 1..MaxLookups :
              /\ lookups[s].pc = "idle"
              /\ lookups'[s] = [pc |-> "pending", kind |-> "bootstrap",
                                path |-> PathOf(getRepository(currentId)), reply |-> "none"]

\* C15 as stated: reloadData() sets loaded to false, re-reads the settings of
\* the current id, issues a current-branch lookup, and when that lookup
\* completes loaded is set to true, so the reload always ends loaded.
C15_ReloadAlwaysEndsLoaded ==
    [][/\ ReloadStarts
       /\ \A s \in 1..MaxLookups : BootstrapSettles(s) => loaded' = TRUE]_vars

\* C15 amended: reloadData() sets loaded to false, re-reads the settings of
\* the current id and issues a current-branch lookup; when that lookup
\* returns, loaded is set to true; when it throws, loaded is left as it is
\* and the reload does not end loaded.
C15_ReloadEndsLoadedIfLookupReturns ==
    [][/\ ReloadStarts
       /\ \A s \in 1..MaxLookups :
             BootstrapSettles(s) =>
                 IF lookups[s].pc = "returned" THEN loaded' = TRUE ELSE loaded' = loaded]_vars

C15_Witness ==
    /\ ~loaded
    /\ Truthy(repositorySetting)
    /\ repositorySetting = getRepository(currentId)
    /\ Truthy(currentBranch)
    /\ \E s \in 1..MaxLookups : lookups[s].pc = "returned" /\ lookups[s].kind = "bootstrap"

\* the collection one refresh of the repository at path computes on its own
RefreshOf(path) ==
    LET r == parseBranches(listBranches(path)).value
    IN  [i \in 1..Len(r) |->
            IF Truthy(r[i].upstream)
            THEN [r[i] EXCEPT !.ahead = countReachable(path, r[i].upstream, r[i].name),
                              !.behind = countReachable(path, r[i].name, r[i].upstream)]
            ELSE r[i]]

\* the array pass k holds when it publishes is its own: the one it parsed, with
\* the counts it awaited
OwnArray(k) ==
    LET p == passes[k]
        out == passes'[k].parsedBranches
    IN  IF p.pc = "list"
        THEN \E reply \in ListReplies(p.path) :
                /\ reply.ok /\ Truthy(reply.value)
                /\ out = parseBranches(reply.value).value
        ELSE LET last == UpstreamBranches(p.parsedBranches)[p.index]
             IN  /\ Len(out) = Len(p.parsedBranches)
                 /\ \A i \in 1..Len(out) : i # last => out[i] = p.parsedBranches[i]
                 /\ out[last].name = p.parsedBranches[last].name
                 /\ out[last].upstream = p.parsedBranches[last].upstream
                 /\ out[last].ahead = p.ahead

\* C16: overlapping refreshes do not merge: the refresh that publishes last
\* replaces the published value with its own whole collection, the published
\* value changes in no other step, and it is always the complete collection
\* of one refresh of one repository, never entries or counts of two.
C16_LastWriteWins ==
    /\ [](branches # NullRef =>
            \E path \in {Repo1, Repo2} : PublishedBranches = RefreshOf(path))
    /\ [][/\ \A k \in 1..MaxPasses :
                PublishedBy(k) => (branches' = k /\ OwnArray(k))
          /\ (\A k \in 1..MaxPasses : ~PublishedBy(k))
                => (branches' = branches /\ PublishedBranches' = PublishedBranches)]_vars

\* both refreshes have published, and the one called first published last
C16_Witness ==
    /\ passes[1].outcome = "published"
    /\ passes[2].outcome = "published"
    /\ branches = 1
    /\ PublishedBranches = RefreshOf(Repo1)

\* the last reply pass k waits for arrives, and it is not a failure
LastReplyArrives(k) ==
    LET p == passes[k]
        q == passes'[k]
    IN  /\ q.pc = "done"
        /\ \/ /\ p.pc = "list"
              /\ q.outcome \notin {"rejected: list", "skipped", "rejected: parse"}
           \/ /\ p.pc = "behind"
              /\ q.outcome # "rejected: count"

\* C17: getBranches() can be called whatever loaded is; the call and every
\* later step of the refresh leave loaded and currentBranch as they are, and
\* the refresh whose listing is non-empty and whose count commands all
\* succeed replaces the published collection with the one it computed.
C17_RefreshNotGated ==
    /\ []((\E k \in 1..MaxPasses : NextPass(k)) => ENABLED GetBranches)
    /\ [][/\ GetBranches => (loaded' = loaded /\ currentBranch' = currentBranch
                               /\ \E k \in 1..MaxPasses :
                                     passes[k].pc = "idle" /\ passes'[k].pc = "list")
          /\ \A k \in 1..MaxPasses :
                /\ PassStep(k) => (loaded' = loaded /\ currentBranch' = currentBranch)
                /\ LastReplyArrives(k) =>
                      /\ branches' = k
                      /\ PublishedBranches' = passes'[k].parsedBranches
                      /\ PublishedBranches' = RefreshOf(passes[k].path)]_vars

\* a refresh called and finished while the session never was loaded
C17_Witness ==
    /\ ~loaded
    /\ currentBranch = Undefined
    /\ branches # NullRef
    /\ PublishedBranches = RefreshOf(Repo1)

\* C18: whenever loaded is true under the settings of the current identity,
\* currentBranch is the branch name of that identity's repository: a
\* bootstrap started for one identity never completes as loaded for another
\* with the first one's branch name.
C18_LoadedForCurrentIdentity ==
    (/\ loaded
     /\ Truthy(repositorySetting)
     /\ repositorySetting = getRepository(currentId)
     /\ Truthy(currentBranch))
        => currentBranch = RepoHead(getPath)

\* C19: in every collection the parser returns, no entry's name is the
\* upstream of an entry of that collection (an empty or missing upstream
\* being no upstream: a name and an upstream coincide only when both are
\* empty), and deduplicating the collection again removes nothing.
C19_DedupIsClosed ==
    ParserReturned =>
        LET out == parsed.value
        IN  /\ \A i \in 1..Len(out) : \A j \in 1..Len(out) :
                   (Truthy(out[i].name) \/ Truthy(out[j].upstream))
                       => out[i].name # out[j].upstream
            /\ Dedup(out) = out

\* the listing f tracking o, o tracking m, m: o is removed, and so is m,
\* which only the removed o tracks
C19_Witness ==
    /\ stdout = <<"f", DELIM, "o", NL, "o", DELIM, "m", NL, "m">>
    /\ ParserReturned
    /\ Len(parsed.value) = 1
    /\ parsed.value[1].name = <<"f">>
    /\ parsed.value[1].upstream = <<"o">>

\* the entries of arr without an upstream have the counts the parser gave them
UntrackedAtZero(arr) ==
    \A i \in 1..Len(arr) :
        ~Truthy(arr[i].upstream) => (arr[i].ahead = 0 /\ arr[i].behind = 0)

\* C20: a branch without an upstream has ahead 0 and behind 0 in every
\* published collection and in every array a refresh is filling in, and
\* every count command in flight is for a branch with an upstream, on that
\* branch's name and upstream.
C20_UntrackedKeepsZero ==
    /\ branches # NullRef => UntrackedAtZero(PublishedBranches)
    /\ \A k \in 1..MaxPasses :
          passes[k].pc \in {"ahead", "behind"} =>
              LET p == passes[k]
                  e == p.parsedBranches[UpstreamBranches(p.parsedBranches)[p.index]]
              IN  /\ UntrackedAtZero(p.parsedBranches)
                  /\ Truthy(e.upstream)
                  /\ {CountFrom(p), CountExcluding(p)} = {e.name, e.upstream}

\* a collection with a branch without an upstream is published while a
\* refresh waits for a count
C20_Witness ==
    /\ branches # NullRef
    /\ \E i \in 1..Len(PublishedBranches) : ~Truthy(PublishedBranches[i].upstream)
    /\ \E k \in 1..MaxPasses : passes[k].pc = "ahead"

====
